---- MODULE Spec2Model ----
(***************************************************************************)
(* A model of src/main.py, the HDSentinel good-block to NTFSMARKBAD        *)
(* bad-sector converter.                                                   *)
(*                                                                         *)
(* Python strings are modelled as sequences of one-character strings, so   *)
(* that formatting (str, f-strings, join) and parsing (strip, split,       *)
(* isdigit, int) are computed character by character.  The character "^2"  *)
(* stands for U+00B2 SUPERSCRIPT TWO, a character for which str.isdigit()  *)
(* is True while int() rejects it.                                         *)
(***************************************************************************)
EXTENDS Integers, Sequences, FiniteSets, TLC

VARIABLES
    pc,       \* position of main(), or of the function under call
    locals,   \* the local variables of main() assigned so far, by name
    files,    \* the files written by this run, by name: their lines
    stdout,   \* the status messages printed so far
    exit,     \* how main() ended: "return" or the exception that left it
    arg,      \* arguments of the function under call
    ret       \* its return value

vars == <<pc, locals, files, stdout, exit, arg, ret>>

mainVars == <<locals, files, stdout, exit>>

(***************************************************************************)
(* Bounds of the model.                                                    *)
(***************************************************************************)
MaxSectors == 8     \* largest total_sectors typed at the prompt
MaxBlocks == 4      \* largest total_blocks typed at the prompt
MaxNegative == 2    \* the totals typed range down to -MaxNegative
MaxGood == 4        \* largest block number pasted into main()
MaxLines == 2       \* number of lines pasted into main()
MaxListLen == 3     \* length of the good list given to invert_blocks
MaxUniverse == 4    \* largest total_blocks given to invert_blocks
MaxValue == 11      \* create_ranges is given subsets of -MaxNegative..MaxValue
MaxTextLines == 2   \* number of lines of the text given to parse_blocks

None == "None"
ValueError == "ValueError"
ZeroDivisionError == "ZeroDivisionError"
EOFError == "EOFError"

(***************************************************************************)
(* Python built-ins on strings and integers.                               *)
(***************************************************************************)
DecimalChars == <<"0", "1", "2", "3", "4", "5", "6", "7", "8", "9">>

IsDecimalChar(c) == \E i \in 1..10 : DecimalChars[i] = c

DecimalValue(c) == (CHOOSE i \in 1..10 : DecimalChars[i] = c) - 1

\* str.isspace() of one character
IsSpace(c) == c \in {" ", "\t", "\n"}

\* str.isdigit() of one character: the decimal digits and the other
\* characters of Unicode Numeric_Type=Digit
IsDigitChar(c) == IsDecimalChar(c) \/ c = "^2"

\* str.isdigit(): non-empty and every character a digit
IsDigit(s) == Len(s) > 0 /\ \A i \in 1..Len(s) : IsDigitChar(s[i])

RECURSIVE StrNat(_)
StrNat(n) ==
    IF n < 10 THEN <<DecimalChars[n + 1]>>
    ELSE Append(StrNat(n \div 10), DecimalChars[(n % 10) + 1])

\* str(n), and "{n}" in an f-string
Str(n) == IF n < 0 THEN <<"-">> \o StrNat(-n) ELSE StrNat(n)

\* str.strip()
Strip(s) ==
    LET keep == {i \in 1..Len(s) : ~IsSpace(s[i])}
    IN  IF keep = {} THEN <<>>
        ELSE LET lo == CHOOSE i \in keep : \A j \in keep : i <= j
                 hi == CHOOSE i \in keep : \A j \in keep : i >= j
             IN  SubSeq(s, lo, hi)

\* str.lower(), on the characters typed at the [y/N] prompt
Lower(s) ==
    [i \in 1..Len(s) |->
        IF s[i] = "Y" THEN "y" ELSE IF s[i] = "N" THEN "n" ELSE s[i]]

RECURSIVE NatOfDecimals(_)
NatOfDecimals(s) ==
    IF Len(s) = 0 THEN 0
    ELSE 10 * NatOfDecimals(SubSeq(s, 1, Len(s) - 1)) + DecimalValue(s[Len(s)])

AllDecimal(s) == Len(s) > 0 /\ \A i \in 1..Len(s) : IsDecimalChar(s[i])

\* int(s) for a string of spaces, signs, decimal digits and other characters
\* (no "_" digit separators are typed in this model): surrounding whitespace
\* is ignored, one sign is allowed, the rest must be decimal digits
IntSigned(s) == Len(Strip(s)) > 0 /\ Strip(s)[1] \in {"-", "+"}

IntBody(s) == IF IntSigned(s) THEN SubSeq(Strip(s), 2, Len(Strip(s))) ELSE Strip(s)

\* int(s) raises ValueError
PyIntRaises(s) == ~AllDecimal(IntBody(s))

\* the value of int(s) when it does not raise
PyInt(s) ==
    IF IntSigned(s) /\ Strip(s)[1] = "-" THEN 0 - NatOfDecimals(IntBody(s))
    ELSE NatOfDecimals(IntBody(s))

\* a // b for b # 0: Python's floor division (TLA+'s \div floors only for b > 0)
FloorDiv(a, b) == IF b > 0 THEN a \div b ELSE (0 - a) \div (0 - b)

\* sep.join(parts)
RECURSIVE Join(_, _)
Join(parts, sep) ==
    IF Len(parts) = 0 THEN <<>>
    ELSE IF Len(parts) = 1 THEN parts[1]
    ELSE parts[1] \o sep \o Join(Tail(parts), sep)

\* s.split('\n')
RECURSIVE SplitLines(_)
SplitLines(s) ==
    LET nl == {i \in 1..Len(s) : s[i] = "\n"}
    IN  IF nl = {} THEN <<s>>
        ELSE LET k == CHOOSE i \in nl : \A j \in nl : i <= j
             IN  <<SubSeq(s, 1, k - 1)>> \o SplitLines(SubSeq(s, k + 1, Len(s)))

\* s.split(): the maximal runs of non-whitespace characters
RECURSIVE Split(_)
Split(s) ==
    LET t == Strip(s)
        ws == {i \in 1..Len(t) : IsSpace(t[i])}
    IN  IF Len(t) = 0 THEN <<>>
        ELSE IF ws = {} THEN <<t>>
        ELSE LET k == CHOOSE i \in ws : \A j \in ws : i <= j
             IN  <<SubSeq(t, 1, k - 1)>> \o Split(SubSeq(t, k + 1, Len(t)))

\* sorted(s) of a set of integers
RECURSIVE Sorted(_)
Sorted(s) ==
    IF s = {} THEN <<>>
    ELSE LET m == CHOOSE x \in s : \A y \in s : x <= y
         IN  <<m>> \o Sorted(s \ {m})

\* list(range(n))
RangeList(n) == [i \in 1..n |-> i - 1]

Elems(seq) == {seq[i] : i \in 1..Len(seq)}

BoundedSeq(S, n) == UNION {[1..k -> S] : k \in 0..n}

(***************************************************************************)
(* The functions of src/main.py.                                           *)
(***************************************************************************)

\* the first tokens that pass parts[0].isdigit(), in line order
DigitTokens(data) ==
    LET lines == SplitLines(Strip(data))
        parts == [i \in 1..Len(lines) |-> Split(lines[i])]
        kept == SelectSeq(parts, LAMBDA p : Len(p) > 0 /\ IsDigit(p[1]))
    IN  [i \in 1..Len(kept) |-> kept[i][1]]

\* parse_blocks(data) raises ValueError: int(parts[0]) does
parse_blocks_raises(data) ==
    \E i \in 1..Len(DigitTokens(data)) : PyIntRaises(DigitTokens(data)[i])

\* parse_blocks(data) when it returns
parse_blocks(data) ==
    LET tokens == DigitTokens(data)
        blocks == [i \in 1..Len(tokens) |-> PyInt(tokens[i])]
    IN  Sorted(Elems(blocks))

\* invert_blocks scanning range(1, total_blocks): block 0 is never reported
invert_blocks_skips_zero(good_blocks_, total_blocks_) ==
    LET good_set == Elems(good_blocks_)
    IN  SelectSeq(RangeList(total_blocks_), LAMBDA b : b \notin good_set /\ b # 0)

\* invert_blocks(good_blocks, total_blocks)
invert_blocks(good_blocks_, total_blocks_) ==
    LET good_set == Elems(good_blocks_)
    IN  SelectSeq(RangeList(total_blocks_), LAMBDA b : b \notin good_set)

\* FormatRange without the singleton case: 3 is rendered "3-3"
FormatRangeAlwaysPair(start, end) == Str(start) \o <<"-">> \o Str(end)

\* f"{start}-{end}" if start != end else str(start)
FormatRange(start, end) ==
    IF start # end THEN Str(start) \o <<"-">> \o Str(end) ELSE Str(start)

\* one iteration of the for loop of create_ranges
RangeStep(acc, block) ==
    IF block = acc.end + 1 THEN [acc EXCEPT !.end = block]
    ELSE [start |-> block, end |-> block,
          ranges |-> Append(acc.ranges, FormatRange(acc.start, acc.end))]

\* the for loop of create_ranges over blocks[lo..hi], as a left fold.  The
\* interval is halved, and the accumulator of the first half is evaluated
\* (as the one element of a set) before the second half is entered, which
\* keeps the depth of the evaluation logarithmic in the length of the list.
RECURSIVE RangeLoop(_, _, _, _)
RangeLoop(blocks, acc, lo, hi) ==
    IF lo > hi THEN acc
    ELSE IF lo = hi THEN RangeStep(acc, blocks[lo])
    ELSE LET mid == (lo + hi) \div 2
         IN  CHOOSE last \in {RangeLoop(blocks, first, mid + 1, hi) :
                                 first \in {RangeLoop(blocks, acc, lo, mid)}} : TRUE

\* create_ranges without line 37: the last range is never appended
create_ranges_drops_last(blocks) ==
    IF Len(blocks) = 0 THEN <<>>
    ELSE RangeLoop(blocks,
             [start |-> blocks[1], end |-> blocks[1], ranges |-> <<>>],
             2, Len(blocks)).ranges

\* create_ranges(blocks)
create_ranges(blocks) ==
    IF Len(blocks) = 0 THEN <<>>
    ELSE LET acc == RangeLoop(blocks,
                        [start |-> blocks[1], end |-> blocks[1], ranges |-> <<>>],
                        2, Len(blocks))
         IN  Append(acc.ranges, FormatRange(acc.start, acc.end))

\* block_to_sector numbering the sectors from 1
block_to_sector_from_one(block, sectors_per_block_) == block * sectors_per_block_ + 1

\* block_to_sector(block, sectors_per_block)
block_to_sector(block, sectors_per_block_) == block * sectors_per_block_

(***************************************************************************)
(* main(): one action per stretch of code between two inputs, returns or   *)
(* file writes.                                                            *)
(***************************************************************************)
DefaultTotalBlocks == 10000

\* what is typed at the two prompts for the totals: a number, something that
\* is not a number, or nothing
TypedNumbers(lo, hi) == {Str(n) : n \in lo..hi} \cup {<<"x">>, <<"1", ".", "5">>}

TypedNothing == {<<>>, <<" ">>}

TypedSectors == TypedNumbers(0 - MaxNegative, MaxSectors) \cup TypedNothing

\* In Spec a number of blocks is always typed: with nothing typed the run
\* goes on with DefaultTotalBlocks blocks, far above MaxBlocks; SpecDefault
\* is the specification of those runs.
TypedBlocks == TypedNumbers(0 - MaxNegative, MaxBlocks)

\* the lines pasted before end of file
PastedLineSet ==
    {Str(n) : n \in 0..MaxGood} \cup {<<>>, <<"1", " ", "o", "k">>, <<"^2">>}

\* what is typed at the [y/N] prompt
Answers == {<<"y">>, <<" ", "Y">>, <<>>, <<"n">>, <<"y", "e", "s">>}

Assigned(name) == name \in DOMAIN locals

Written(name) == name \in DOMAIN files

Let(name, value) == locals' = (name :> value) @@ locals

Write(name, lines) == files' = (name :> lines) @@ files

Say(msg) == stdout' = Append(stdout, msg)

Return == pc' = "done" /\ exit' = "return"

Raise(exception) == pc' = "done" /\ exit' = exception /\ UNCHANGED stdout

Init ==
    /\ pc = "total_sectors"
    /\ locals = <<>>
    /\ files = <<>>
    /\ stdout = <<>>
    /\ exit = None
    /\ arg = None
    /\ ret = None

\* lines 58-62
ReadTotalSectors ==
    /\ pc = "total_sectors"
    /\ \E typed \in TypedSectors :
        LET total_sectors_input == Strip(typed)
            frame == ("total_sectors_input" :> total_sectors_input) @@ locals
        IN  IF total_sectors_input = <<>>
            THEN /\ locals' = frame
                 /\ Say("ERROR: Total sectors required!")
                 /\ Return
            ELSE IF PyIntRaises(total_sectors_input)
            THEN /\ locals' = frame
                 /\ Raise(ValueError)
            ELSE /\ locals' = ("total_sectors" :> PyInt(total_sectors_input)) @@ frame
                 /\ pc' = "total_blocks"
                 /\ UNCHANGED <<stdout, exit>>
    /\ UNCHANGED <<files, arg, ret>>

\* lines 64-68, with one of the lines of typed_set typed at the prompt
ReadTotalBlocksFrom(typed_set) ==
    /\ pc = "total_blocks"
    /\ \E typed \in typed_set :
        LET total_blocks_input == Strip(typed)
            frame == ("total_blocks_input" :> total_blocks_input) @@ locals
        IN  IF total_blocks_input # <<>> /\ PyIntRaises(total_blocks_input)
            THEN /\ locals' = frame
                 /\ Raise(ValueError)
            ELSE LET total_blocks ==
                         IF total_blocks_input # <<>> THEN PyInt(total_blocks_input)
                         ELSE DefaultTotalBlocks
                 IN  IF total_blocks = 0
                     THEN /\ locals' = ("total_blocks" :> total_blocks) @@ frame
                          /\ Raise(ZeroDivisionError)
                     ELSE /\ locals' =
                                ("sectors_per_block" :>
                                    FloorDiv(locals.total_sectors, total_blocks))
                                @@ ("total_blocks" :> total_blocks) @@ frame
                          /\ pc' = "good_blocks"
                          /\ UNCHANGED <<stdout, exit>>
    /\ UNCHANGED <<files, arg, ret>>

ReadTotalBlocks == ReadTotalBlocksFrom(TypedBlocks)

ReadDefaultTotalBlocks == ReadTotalBlocksFrom(TypedNothing)

\* lines 83-100 (lines and data are not read again and are not kept)
ReadGoodBlocks ==
    /\ pc = "good_blocks"
    /\ \E lines \in BoundedSeq(PastedLineSet, MaxLines) :
        LET data == Join(lines, <<"\n">>)
        IN  IF parse_blocks_raises(data)
            THEN /\ UNCHANGED locals
                 /\ Raise(ValueError)
            ELSE /\ Let("good_blocks", parse_blocks(data))
                 /\ IF parse_blocks(data) = <<>>
                    THEN /\ Say("ERROR: No valid blocks found in input!")
                         /\ Return
                    ELSE /\ pc' = "invert"
                         /\ UNCHANGED <<stdout, exit>>
    /\ UNCHANGED <<files, arg, ret>>

\* lines 102-113 without the return of line 113
InvertBlocksGoesOn ==
    /\ pc = "invert"
    /\ Let("bad_blocks", invert_blocks(locals.good_blocks, locals.total_blocks))
    /\ pc' = "ranges"
    /\ UNCHANGED <<files, stdout, exit, arg, ret>>

\* lines 102-113
InvertBlocks ==
    /\ pc = "invert"
    /\ LET bad_blocks == invert_blocks(locals.good_blocks, locals.total_blocks)
       IN  /\ Let("bad_blocks", bad_blocks)
           /\ IF bad_blocks = <<>>
              THEN /\ Say("SUCCESS: No bad blocks found!")
                   /\ Return
              ELSE /\ pc' = "ranges"
                   /\ UNCHANGED <<stdout, exit>>
    /\ UNCHANGED <<files, arg, ret>>

\* lines 132-137 without the "- 1" of line 136: a range ends on the first
\* sector of the next block
SectorRangesEndInclusive(bad_blocks, sectors_per_block) ==
    [i \in 1..Len(bad_blocks) |->
        <<block_to_sector(bad_blocks[i], sectors_per_block),
          block_to_sector(bad_blocks[i] + 1, sectors_per_block)>>]

\* lines 132-137
SectorRanges(bad_blocks, sectors_per_block) ==
    [i \in 1..Len(bad_blocks) |->
        <<block_to_sector(bad_blocks[i], sectors_per_block),
          block_to_sector(bad_blocks[i] + 1, sectors_per_block) - 1>>]

\* lines 146-147: one line "start end" per sector range
NtfsmarkbadLines(sector_ranges) ==
    [i \in 1..Len(sector_ranges) |->
        Str(sector_ranges[i][1]) \o <<" ">> \o Str(sector_ranges[i][2])]

\* lines 152-153; literal text is kept as one piece of the line
BadBlockRangesLines(bad_ranges, bad_blocks) ==
    << <<"Bad blocks: ">> \o Join(bad_ranges, <<",", " ">>),
       <<>>,
       <<"Total: ">> \o Str(Len(bad_blocks)) \o <<" bad blocks">> >>

\* lines 115-154: the statistics, the ranges and the first two files
GenerateFiles ==
    /\ pc = "ranges"
    /\ LET bad_sectors_count == Len(locals.bad_blocks) * locals.sectors_per_block
           bad_ranges == create_ranges(locals.bad_blocks)
           sector_ranges == SectorRanges(locals.bad_blocks, locals.sectors_per_block)
       IN  /\ locals' = ("sector_ranges" :> sector_ranges)
                        @@ ("bad_ranges" :> bad_ranges)
                        @@ ("bad_sectors_count" :> bad_sectors_count)
                        @@ locals
           /\ files' = ("bad_block_ranges.txt" :>
                            BadBlockRangesLines(bad_ranges, locals.bad_blocks))
                       @@ ("ntfsmarkbad_sectors.txt" :> NtfsmarkbadLines(sector_ranges))
                       @@ files
    /\ stdout' = stdout \o <<"ntfsmarkbad_sectors.txt", "bad_block_ranges.txt">>
    /\ pc' = "create_ext4"
    /\ UNCHANGED <<exit, arg, ret>>

\* lines 162-164: one line per sector of range(start, end + 1), range by range
RECURSIVE Ext4Lines(_, _, _)
Ext4Lines(sector_ranges, lo, hi) ==
    IF lo > hi THEN <<>>
    ELSE IF lo = hi
    THEN [k \in 1..(sector_ranges[lo][2] - sector_ranges[lo][1] + 1) |->
             Str(sector_ranges[lo][1] + k - 1)]
    ELSE LET mid == (lo + hi) \div 2
         IN  Ext4Lines(sector_ranges, lo, mid) \o Ext4Lines(sector_ranges, mid + 1, hi)

\* lines 156-167
PromptExt4 ==
    /\ pc = "create_ext4"
    /\ \E typed \in Answers :
        LET create_ext4 == Lower(Strip(typed))
        IN  /\ Let("create_ext4", create_ext4)
            /\ IF create_ext4 = <<"y">>
               THEN /\ Write("badblocks_ext4.txt",
                             Ext4Lines(locals.sector_ranges, 1, Len(locals.sector_ranges)))
                    /\ Say("badblocks_ext4.txt")
               ELSE /\ UNCHANGED files
                    /\ Say("Skipped badblocks_ext4.txt")
    /\ pc' = "write_bat"
    /\ UNCHANGED <<exit, arg, ret>>

\* lines 170-245: the script is fixed text around the number of bad blocks
\* and the lost space (here in bytes, the code prints it in GB)
BatLines(bad_blocks, bad_sectors_count) ==
    << <<"This will mark ">> \o Str(Len(bad_blocks)) \o <<" bad blocks">>,
       <<"Marking ">> \o Str(Len(bad_blocks)) \o <<" bad blocks...">>,
       <<"Marked ">> \o Str(Len(bad_blocks)) \o <<" bad blocks as unusable">>,
       <<"Lost space: ">> \o Str(bad_sectors_count * 512) >>

\* lines 248-304: fixed text around the figures of the run, and one line
\* about badblocks_ext4.txt when it was asked for
ReadmeLines(total_sectors, bad_blocks, bad_sectors_count, create_ext4) ==
    << <<"Drive:           ">> \o Str(total_sectors),
       <<"Bad blocks:      ">> \o Str(Len(bad_blocks)),
       <<"Bad sectors:     ">> \o Str(bad_sectors_count) >>
    \o (IF create_ext4 = <<"y">>
        THEN << <<"- badblocks_ext4.txt      : For Linux ext4 (large file!)">> >>
        ELSE <<>>)

\* lines 324-332
Warnings(bad_blocks) ==
    IF Len(bad_blocks) > 2000 THEN <<"WARNING: Over 2000 bad blocks detected!">>
    ELSE IF Len(bad_blocks) > 500 THEN <<"CAUTION: Over 500 bad blocks.">>
    ELSE <<>>

\* lines 169-332: the batch script, the README and the closing messages
WriteScripts ==
    /\ pc = "write_bat"
    /\ files' = ("README.txt" :>
                    ReadmeLines(locals.total_sectors, locals.bad_blocks,
                                locals.bad_sectors_count, locals.create_ext4))
                @@ ("mark_bad_sectors.bat" :>
                        BatLines(locals.bad_blocks, locals.bad_sectors_count))
                @@ files
    /\ stdout' = stdout \o <<"mark_bad_sectors.bat", "README.txt", "DONE!">>
                        \o Warnings(locals.bad_blocks)
    /\ Return
    /\ UNCHANGED <<locals, arg, ret>>

\* input() at one of the three prompts (lines 58, 64, 158) meets end of file
InputEOF ==
    /\ pc \in {"total_sectors", "total_blocks", "create_ext4"}
    /\ Raise(EOFError)
    /\ UNCHANGED <<locals, files, arg, ret>>

Next ==
    \/ ReadTotalSectors
    \/ ReadTotalBlocks
    \/ ReadGoodBlocks
    \/ InvertBlocks
    \/ GenerateFiles
    \/ PromptExt4
    \/ WriteScripts
    \/ InputEOF

Spec == Init /\ [][Next]_vars

NextDefault ==
    \/ ReadTotalSectors
    \/ ReadDefaultTotalBlocks
    \/ ReadGoodBlocks
    \/ InvertBlocks
    \/ GenerateFiles
    \/ PromptExt4
    \/ WriteScripts
    \/ InputEOF

SpecDefault == Init /\ [][NextDefault]_vars

(***************************************************************************)
(* Calls of the functions on their own: the arguments are drawn in the     *)
(* initial state and one action is the call.                               *)
(***************************************************************************)
MainIdle == locals = <<>> /\ files = <<>> /\ stdout = <<>> /\ exit = None

\* ---- invert_blocks ----
InitInvert ==
    /\ pc = "invert_blocks:call"
    /\ arg \in [good_blocks : BoundedSeq(0..(MaxUniverse + 1), MaxListLen),
                total_blocks : 0..MaxUniverse]
    /\ ret = None
    /\ MainIdle

CallInvert ==
    /\ pc = "invert_blocks:call"
    /\ pc' = "invert_blocks:return"
    /\ ret' = invert_blocks(arg.good_blocks, arg.total_blocks)
    /\ UNCHANGED <<arg, mainVars>>

NextInvert == CallInvert

SpecInvert == InitInvert /\ [][NextInvert]_vars

\* ---- create_ranges ----
InitRanges ==
    /\ pc = "create_ranges:call"
    /\ \E S \in SUBSET ((0 - MaxNegative)..MaxValue) : arg = [blocks |-> Sorted(S)]
    /\ ret = None
    /\ MainIdle

CallRanges ==
    /\ pc = "create_ranges:call"
    /\ pc' = "create_ranges:return"
    /\ ret' = create_ranges(arg.blocks)
    /\ UNCHANGED <<arg, mainVars>>

NextRanges == CallRanges

SpecRanges == InitRanges /\ [][NextRanges]_vars

\* ---- parse_blocks ----
\* The text is built from lines; a line is leading whitespace and tokens
\* separated by one space.
TokenLists ==
    { <<>>,
      << <<"7">> >>,
      << <<"1", "0">> >>,
      << <<"0", "7">> >>,
      << <<"3">>, <<"o", "k">> >>,
      << <<"x">>, <<"5">> >>,
      << <<"-", "1">> >>,
      << <<"4", "a">> >>,
      << <<"^2">> >>,
      << <<"7">>, <<"9">> >> }

LineShapes == [lead : {<<>>, <<" ">>}, tokens : TokenLists]

LineText(l) == l.lead \o Join(l.tokens, <<" ">>)

Text(lines) == Join([i \in 1..Len(lines) |-> LineText(lines[i])], <<"\n">>)

InitParse ==
    /\ pc = "parse_blocks:call"
    /\ \E lines \in BoundedSeq(LineShapes, MaxTextLines) :
           arg = [lines |-> lines, data |-> Text(lines)]
    /\ ret = None
    /\ MainIdle

CallParse ==
    /\ pc = "parse_blocks:call"
    /\ IF parse_blocks_raises(arg.data)
       THEN pc' = "parse_blocks:raise" /\ ret' = ValueError
       ELSE pc' = "parse_blocks:return" /\ ret' = parse_blocks(arg.data)
    /\ UNCHANGED <<arg, mainVars>>

NextParse == CallParse

SpecParse == InitParse /\ [][NextParse]_vars

(***************************************************************************)
(* Properties of the functions.                                            *)
(***************************************************************************)
StrictlyAscending(seq) == \A i \in 1..(Len(seq) - 1) : seq[i] < seq[i + 1]

\* C1: for total_blocks > 0 and any list good (duplicates and values
\* >= total_blocks included), invert_blocks returns, strictly ascending,
\* exactly the integers of 0..total_blocks-1 that are not in good; the values
\* of good that are >= total_blocks do not change the result, and the result
\* shares no element with good.
C1_InvertIsComplement ==
    (pc = "invert_blocks:return" /\ arg.total_blocks > 0) =>
        /\ StrictlyAscending(ret)
        /\ Elems(ret) = (0..(arg.total_blocks - 1)) \ Elems(arg.good_blocks)
        /\ ret = invert_blocks(
                    SelectSeq(arg.good_blocks, LAMBDA g : g < arg.total_blocks),
                    arg.total_blocks)
        /\ Elems(ret) \cap Elems(arg.good_blocks) = {}

C1_Witness ==
    /\ pc = "invert_blocks:return"
    /\ arg.total_blocks > 0
    /\ Len(arg.good_blocks) > Cardinality(Elems(arg.good_blocks))
    /\ \E i \in 1..Len(arg.good_blocks) : arg.good_blocks[i] >= arg.total_blocks
    /\ \E i \in 1..Len(arg.good_blocks) : arg.good_blocks[i] < arg.total_blocks
    /\ Len(ret) >= 2

\* Reading a rendered range back: the separator of "a-b" is the first "-"
\* that is not the sign of a.
SeparatorAt(r) ==
    LET dashes == {i \in 2..Len(r) : r[i] = "-"}
    IN  IF dashes = {} THEN 0
        ELSE CHOOSE i \in dashes : \A j \in dashes : i <= j

RangeStart(r) ==
    IF SeparatorAt(r) = 0 THEN PyInt(r) ELSE PyInt(SubSeq(r, 1, SeparatorAt(r) - 1))

RangeEnd(r) ==
    IF SeparatorAt(r) = 0 THEN PyInt(r) ELSE PyInt(SubSeq(r, SeparatorAt(r) + 1, Len(r)))

Expand(r) == [k \in 1..(RangeEnd(r) - RangeStart(r) + 1) |-> RangeStart(r) + k - 1]

RECURSIVE ExpandAll(_)
ExpandAll(ranges) ==
    IF Len(ranges) = 0 THEN <<>> ELSE Expand(ranges[1]) \o ExpandAll(Tail(ranges))

\* C2: for a strictly ascending sequence S (the empty one included),
\* expanding the ranges of create_ranges(S) in output order gives back S;
\* the empty sequence gives the empty list.
C2_RangesRoundTrip ==
    pc = "create_ranges:return" =>
        /\ ExpandAll(ret) = arg.blocks
        /\ (arg.blocks = <<>> => ret = <<>>)

C2_Witness ==
    /\ pc = "create_ranges:return"
    /\ arg.blocks = <<-1, 0, 1, 3, 9, 10, 11>>
    /\ ret = << <<"-", "1", "-", "1">>, <<"3">>, <<"9", "-", "1", "1">> >>

\* C3: every range of create_ranges(S) has start <= end, consecutive ranges
\* leave a gap (end + 1 < next start), and a range is rendered as a single
\* number exactly when start = end.
C3_RangesMinimal ==
    pc = "create_ranges:return" =>
        /\ \A i \in 1..Len(ret) :
              /\ RangeStart(ret[i]) <= RangeEnd(ret[i])
              /\ (SeparatorAt(ret[i]) = 0) <=> (RangeStart(ret[i]) = RangeEnd(ret[i]))
        /\ \A i \in 1..(Len(ret) - 1) : RangeEnd(ret[i]) + 1 < RangeStart(ret[i + 1])

C3_Witness ==
    /\ pc = "create_ranges:return"
    /\ Len(ret) >= 3
    /\ \E i \in 1..Len(ret) : SeparatorAt(ret[i]) = 0
    /\ \E i \in 1..Len(ret) : RangeEnd(ret[i]) >= RangeStart(ret[i]) + 2
    /\ \E i \in 1..(Len(ret) - 1) : RangeEnd(ret[i]) + 2 = RangeStart(ret[i + 1])

\* The block numbers the text of arg.lines holds: the values of the first
\* tokens that are all decimal digits.
ExpectedBlocks(lines) ==
    {NatOfDecimals(lines[i].tokens[1]) :
        i \in {j \in 1..Len(lines) :
                  Len(lines[j].tokens) > 0 /\ AllDecimal(lines[j].tokens[1])}}

\* the lines reordered, with lines repeated or repeated lines dropped
Rearranged(lines) ==
    {l \in BoundedSeq(Elems(lines), Len(lines) + 1) : Elems(l) = Elems(lines)}

\* C8: parse_blocks raises no error and returns, strictly ascending, exactly
\* the integers that are an all-decimal-digit first token of some line; lines
\* that are blank or start with another token contribute nothing; reordering
\* or repeating lines does not change the result.
C8_ParseTolerant ==
    pc # "parse_blocks:call" =>
        /\ pc = "parse_blocks:return"
        /\ StrictlyAscending(ret)
        /\ Elems(ret) = ExpectedBlocks(arg.lines)
        /\ \A l \in Rearranged(arg.lines) :
              ~parse_blocks_raises(Text(l)) /\ parse_blocks(Text(l)) = ret

\* The same, for the texts in which every digit is a decimal digit.
OnlyDecimalDigits(lines) ==
    \A i \in 1..Len(lines) : \A j \in 1..Len(lines[i].tokens) :
        \A k \in 1..Len(lines[i].tokens[j]) : lines[i].tokens[j][k] # "^2"

ParseTolerantOnDecimalText ==
    (pc # "parse_blocks:call" /\ OnlyDecimalDigits(arg.lines)) =>
        /\ pc = "parse_blocks:return"
        /\ StrictlyAscending(ret)
        /\ Elems(ret) = ExpectedBlocks(arg.lines)
        /\ \A l \in Rearranged(arg.lines) :
              ~parse_blocks_raises(Text(l)) /\ parse_blocks(Text(l)) = ret

(***************************************************************************)
(* Properties of main().                                                   *)
(***************************************************************************)
NoFileWritten == DOMAIN files = {}

\* the sector range a line "start end" of ntfsmarkbad_sectors.txt holds
RangeOfLine(line) == <<PyInt(Split(line)[1]), PyInt(Split(line)[2])>>

EmittedRanges ==
    [i \in 1..Len(files["ntfsmarkbad_sectors.txt"]) |->
        RangeOfLine(files["ntfsmarkbad_sectors.txt"][i])]

\* C4: when sectors_per_block is 0 no file is written by the run, and no
\* sector range with end < start is ever written to ntfsmarkbad_sectors.txt.
C4_DegenerateScaleRejected ==
    /\ (Assigned("sectors_per_block") /\ locals.sectors_per_block = 0) => NoFileWritten
    /\ Written("ntfsmarkbad_sectors.txt") =>
          \A i \in 1..Len(EmittedRanges) : EmittedRanges[i][1] <= EmittedRanges[i][2]

\* C5: sector_ranges has one entry per bad block, in the order of bad_blocks,
\* the entry of block b is <<b * sectors_per_block, (b+1) * sectors_per_block - 1>>,
\* the entries of two consecutive bad blocks are contiguous, and each entry
\* is a line of its own in ntfsmarkbad_sectors.txt.
C5_SectorMappingExact ==
    Assigned("sector_ranges") =>
        LET sr == locals.sector_ranges
            bb == locals.bad_blocks
            spb == locals.sectors_per_block
        IN  /\ Len(sr) = Len(bb)
            /\ \A i \in 1..Len(bb) :
                  sr[i] = <<bb[i] * spb, (bb[i] + 1) * spb - 1>>
            /\ \A i \in 1..(Len(bb) - 1) :
                  bb[i + 1] = bb[i] + 1 => sr[i][2] + 1 = sr[i + 1][1]
            /\ Written("ntfsmarkbad_sectors.txt") => EmittedRanges = sr

C5_Witness ==
    /\ Written("ntfsmarkbad_sectors.txt")
    /\ locals.sectors_per_block >= 2
    /\ \E i \in 1..(Len(locals.bad_blocks) - 1) :
          locals.bad_blocks[i + 1] = locals.bad_blocks[i] + 1
    /\ \E i \in 1..(Len(locals.bad_blocks) - 1) :
          locals.bad_blocks[i + 1] > locals.bad_blocks[i] + 1

\* a total was typed and is not a non-negative integer
InvalidTotal(name) ==
    /\ Assigned(name)
    /\ locals[name] # <<>>
    /\ PyIntRaises(locals[name]) \/ PyInt(locals[name]) < 0

\* C6: when a typed total is not a non-negative integer (a negative one
\* included), the run writes no file.
C6_InvalidNumberWritesNothing ==
    (InvalidTotal("total_sectors_input") \/ InvalidTotal("total_blocks_input"))
        => NoFileWritten

\* the two terminal conditions that are not errors
EmptyGoodSet == Assigned("good_blocks") /\ locals.good_blocks = <<>>

NoBadBlocks == Assigned("bad_blocks") /\ locals.bad_blocks = <<>>

\* C7: a run that parsed no block number, or that computed no bad block, has
\* ended by a return and has written no file (and, no action being enabled
\* once pc is "done", never will); a file is written only after a non-empty
\* good set was parsed and a non-empty list of bad blocks was computed.
C7_TerminalStatesWriteNothing ==
    /\ (EmptyGoodSet \/ NoBadBlocks) =>
          pc = "done" /\ exit = "return" /\ NoFileWritten /\ ~ENABLED Next
    /\ ~NoFileWritten =>
          /\ Assigned("good_blocks") /\ locals.good_blocks # <<>>
          /\ Assigned("bad_blocks") /\ locals.bad_blocks # <<>>

C7_Witness ==
    /\ NoBadBlocks
    /\ locals.total_blocks > 0
    /\ Len(locals.good_blocks) > locals.total_blocks

\* the sectors badblocks_ext4.txt lists, line by line
Ext4Sectors ==
    [i \in 1..Len(files["badblocks_ext4.txt"]) |-> PyInt(files["badblocks_ext4.txt"][i])]

SectorsOf(range) == range[1]..range[2]

Ext4ListsEveryBadSectorOnce ==
    /\ StrictlyAscending(Ext4Sectors)
    /\ Elems(Ext4Sectors) =
          UNION {SectorsOf(locals.sector_ranges[i]) : i \in 1..Len(locals.sector_ranges)}
    /\ Len(Ext4Sectors) = Len(locals.bad_blocks) * locals.sectors_per_block

\* C9: badblocks_ext4.txt is written only when the answer at its prompt is
\* "y"; the prompt comes only after ntfsmarkbad_sectors.txt and
\* bad_block_ranges.txt are written; the file lists every sector of every
\* bad sector range once, ascending, in
\* len(bad_blocks) * sectors_per_block lines.
C9_Ext4OnlyOnRequest ==
    /\ Written("badblocks_ext4.txt") =>
          Assigned("create_ext4") /\ locals.create_ext4 = <<"y">>
    /\ (pc = "create_ext4" \/ Assigned("create_ext4")) =>
          Written("ntfsmarkbad_sectors.txt") /\ Written("bad_block_ranges.txt")
    /\ Written("badblocks_ext4.txt") => Ext4ListsEveryBadSectorOnce

\* The same, for the runs with total_sectors >= 0.
Ext4OnlyOnRequestForNonNegativeSectors ==
    (Assigned("total_sectors") /\ locals.total_sectors >= 0) => C9_Ext4OnlyOnRequest

\* C10: when total_blocks > 0 and total_sectors >= total_blocks, every range
\* written to ntfsmarkbad_sectors.txt has 0 <= start <= end <= total_sectors - 1,
\* each range ends before the next one starts, and no sector of a good block
\* below total_blocks lies in a range.
C10_EmittedRangesWithinDisk ==
    (/\ Written("ntfsmarkbad_sectors.txt")
     /\ locals.total_blocks > 0
     /\ locals.total_sectors >= locals.total_blocks) =>
        LET er == EmittedRanges
            spb == locals.sectors_per_block
        IN  /\ \A i \in 1..Len(er) :
                  0 <= er[i][1] /\ er[i][1] <= er[i][2]
                                /\ er[i][2] <= locals.total_sectors - 1
            /\ \A i \in 1..(Len(er) - 1) : er[i][2] < er[i + 1][1]
            /\ \A g \in Elems(locals.good_blocks) :
                  g < locals.total_blocks =>
                      \A x \in (g * spb)..((g + 1) * spb - 1) :
                          \A i \in 1..Len(er) : ~(er[i][1] <= x /\ x <= er[i][2])

C10_Witness ==
    /\ Written("ntfsmarkbad_sectors.txt")
    /\ locals.total_blocks > 0
    /\ locals.sectors_per_block >= 2
    /\ locals.total_sectors > locals.total_blocks * locals.sectors_per_block
    /\ Len(EmittedRanges) >= 2
    /\ \E g \in Elems(locals.good_blocks) :
          0 < g /\ g + 1 < locals.total_blocks
          /\ g - 1 \in Elems(locals.bad_blocks) /\ g + 1 \in Elems(locals.bad_blocks)

====
